---- MODULE Spec2Model ----
(***************************************************************************)
(* Frame-range detection core of VSET: the interval merger (mergeRanges),  *)
(* the perceptual freeze detector (detectFreezeRanges, in its two source   *)
(* variants) and the exact-duplicate detector (detectExactDuplicateRanges).*)
(*                                                                         *)
(* Numbers.  Frame indices and frame counts are integers.  Option values   *)
(* (minFrames, maxFrames, maxSegments) are JavaScript numbers that the     *)
(* code floors; they are modelled as rationals with denominator 2, held as *)
(* the integer numerator ("halves"), so that 3 stands for 1.5.  Timestamps *)
(* of the freeze log are modelled the same way (halves of a second) and    *)
(* are records [finite, v], finite = FALSE standing for NaN / Infinity.    *)
(* Arithmetic is exact (no floating-point rounding error).                 *)
(* An absent / null value is the empty sequence, a present one <<v>>.      *)
(*                                                                         *)
(* Specifications.  Spec: one detector invocation whose pipe delivers      *)
(* chunks of already separated lines.  SpecStream: one invocation whose    *)
(* pipe delivers bytes, cut into chunks at any position, with the decoding *)
(* and the line buffer of the 'data' handlers.  SpecMerge: mergeRanges     *)
(* applied to a list.                                                      *)
(***************************************************************************)
EXTENDS Integers, Sequences, FiniteSets

VARIABLES
    \* ---- one detector invocation ----
    detector,       \* "freeze" (part_001), "freezeCap" (part_000), "dup", "none"
    fps,            \* params.fps: [finite, v]
    options,        \* params.options: [minFrames, maxFrames, maxSegments] in halves
    pc,             \* "called", "spawned", "closed", "returned", "merge"
    spawnCount,     \* number of external processes launched
    minFrames,      \* coerced minFrames
    maxFrames,      \* coerced maxFrames: <<>> (null) or <<n>>
    maxSegments,    \* coerced maxSegments: <<>> (undefined) or <<n>>
    buffer,         \* text received that no newline ended yet: "" or "partial" where
                    \* the lines arrive parsed, the text itself where bytes arrive
    currentStart,   \* <<>> (null) or <<timestamp>>
    rangesByTime,   \* sequence of [start, end] (halves of a second)
    rawRanges,      \* the list built for the merger (by finalizeRun / by the conversion loop)
    frameIndex,
    previousHash,   \* <<>> (null) or the hash (a sequence of characters)
    runStart,       \* <<>> (null) or <<n>>
    runLength,
    hashes,         \* the valid hashes the process has emitted so far, in order
    calls,          \* the resolve / reject calls made so far, in order
    exitCode,       \* <<>> or <<code>> once 'close' was delivered
    logLines,       \* number of complete lines the freeze filter has written
    \* ---- the parsed pipe, byte by byte ----
    sBytes,         \* the bytes the process writes to the parsed pipe before it closes
    sPos,           \* how many of them the 'data' events have delivered
    received,       \* the text of all chunk.toString() so far, in order
    observed,       \* the onLine calls of the parsed pipe's handler so far, in order:
                    \* [text, seen (the parser variables at the call)]
    stderrObserved, \* the texts the duplicate detector's stderr handler gave onLine
    \* ---- the interval merger applied to a list ----
    mInput,         \* the list handed to mergeRanges
    mOnce,          \* <<>> or <<mergeRanges(mInput)>>
    mTwice,         \* <<>> or <<mergeRanges(mergeRanges(mInput))>>
    mPerm           \* <<>> or <<the set of mergeRanges(p) for the permutations p of mInput>>

vars == <<detector, fps, options, pc, spawnCount, minFrames, maxFrames, maxSegments,
          buffer, currentStart, rangesByTime, rawRanges, frameIndex, previousHash,
          runStart, runLength, hashes, calls, exitCode, logLines,
          sBytes, sPos, received, observed, stderrObserved,
          mInput, mOnce, mTwice, mPerm>>

detVars == <<detector, fps, options, pc, spawnCount, minFrames, maxFrames, maxSegments,
             buffer, currentStart, rangesByTime, rawRanges, frameIndex, previousHash,
             runStart, runLength, hashes, calls, exitCode, logLines>>

mergeVars == <<mInput, mOnce, mTwice, mPerm>>

streamVars == <<sBytes, sPos, received, observed, stderrObserved>>

\* ------------------------------------------------------------------ bounds
MaxCoord == 2       \* merger inputs: coordinates 0..MaxCoord
MaxLen == 3         \* merger inputs: at most MaxLen pairs
MaxTime == 3        \* freeze log: timestamps 0..MaxTime halves of a second
MaxLogLines == 4    \* freeze log: at most MaxLogLines complete lines
MaxFrameCount == 6  \* framemd5 stream: at most MaxFrameCount frames
MaxStreamLines == 3 \* byte streams: at most MaxStreamLines complete lines
MaxStderrChunks == 1 \* duplicate detector: chunks on standard error per process

\* ------------------------------------------------------------- arithmetic
Max(a, b) == IF a >= b THEN a ELSE b

\* Math.floor of a value given in halves
Floor(h) == h \div 2

\* ------------------------------------------------------------ mergeRanges
\* Number.isFinite on a bound of a pair: the pairs of this model are integers
IsFiniteNumber(x) == x \in Int

\* .filter(([s, e]) => Number.isFinite(s) && Number.isFinite(e) && s <= e)
KeepValid(ranges) ==
    SelectSeq(ranges, LAMBDA r : IsFiniteNumber(r[1]) /\ IsFiniteNumber(r[2]) /\ r[1] <= r[2])

\* Array.prototype.sort with the comparator a[0] - b[0]: a stable sort by start
RECURSIVE InsertByStart(_, _)
InsertByStart(sorted, r) ==
    IF sorted = <<>> THEN <<r>>
    ELSE IF Head(sorted)[1] <= r[1]
         THEN <<Head(sorted)>> \o InsertByStart(Tail(sorted), r)
         ELSE <<r>> \o sorted

RECURSIVE SortFrom(_, _)
SortFrom(sorted, rest) ==
    IF rest = <<>> THEN sorted
    ELSE SortFrom(InsertByStart(sorted, Head(rest)), Tail(rest))

SortKeepsOrder(ranges) == ranges

SortByStart(ranges) == SortFrom(<<>>, ranges)

\* the sweep: for (const [start, end] of sorted) { ... }
RECURSIVE SweepAgainstPrevious(_, _, _)
SweepAgainstPrevious(merged, prev, rest) ==
    IF rest = <<>> THEN merged
    ELSE LET r == Head(rest)
             n == Len(merged)
         IN  IF n = 0 THEN SweepAgainstPrevious(<<r>>, <<r>>, Tail(rest))
             ELSE IF r[1] <= prev[1][2] + 1
                  THEN SweepAgainstPrevious(
                         [merged EXCEPT ![n] = <<merged[n][1], Max(merged[n][2], r[2])>>],
                         <<r>>, Tail(rest))
                  ELSE SweepAgainstPrevious(Append(merged, r), <<r>>, Tail(rest))

RECURSIVE SweepNoAdjacency(_, _)
SweepNoAdjacency(merged, rest) ==
    IF rest = <<>> THEN merged
    ELSE LET r == Head(rest)
             n == Len(merged)
         IN  IF n = 0 THEN SweepNoAdjacency(<<r>>, Tail(rest))
             ELSE IF r[1] <= merged[n][2]
                  THEN SweepNoAdjacency(
                         [merged EXCEPT ![n] = <<merged[n][1], Max(merged[n][2], r[2])>>],
                         Tail(rest))
                  ELSE SweepNoAdjacency(Append(merged, r), Tail(rest))

RECURSIVE SweepNoMax(_, _)
SweepNoMax(merged, rest) ==
    IF rest = <<>> THEN merged
    ELSE LET r == Head(rest)
             n == Len(merged)
         IN  IF n = 0 THEN SweepNoMax(<<r>>, Tail(rest))
             ELSE IF r[1] <= merged[n][2] + 1
                  THEN SweepNoMax([merged EXCEPT ![n] = <<merged[n][1], r[2]>>], Tail(rest))
                  ELSE SweepNoMax(Append(merged, r), Tail(rest))

RECURSIVE Sweep(_, _)
Sweep(merged, rest) ==
    IF rest = <<>> THEN merged
    ELSE LET r == Head(rest)
             n == Len(merged)
         IN  IF n = 0 THEN Sweep(<<r>>, Tail(rest))
             ELSE IF r[1] <= merged[n][2] + 1
                  THEN Sweep([merged EXCEPT ![n] = <<merged[n][1], Max(merged[n][2], r[2])>>],
                             Tail(rest))
                  ELSE Sweep(Append(merged, r), Tail(rest))

MergeLoopAgainstPrevious(sorted) == SweepAgainstPrevious(<<>>, <<>>, sorted)

MergeLoopNoAdjacency(sorted) == SweepNoAdjacency(<<>>, sorted)

MergeLoopNoMax(sorted) == SweepNoMax(<<>>, sorted)

MergeLoop(sorted) == Sweep(<<>>, sorted)

mergeRanges(ranges) == MergeLoop(SortByStart(KeepValid(ranges)))

\* ------------------------------------------------------ option coercion
\* Math.max(1, Math.floor(options.minFrames))
CoerceMinFrames(opts) == Max(1, Floor(opts.minFrames))

\* part_001: Math.floor(options.maxFrames) <= 0 ? null : Math.max(minFrames, floor)
CoerceMaxFrames(opts) ==
    IF Floor(opts.maxFrames) <= 0 THEN <<>>
    ELSE <<Max(CoerceMinFrames(opts), Floor(opts.maxFrames))>>

\* part_000: Math.max(minFrames, Math.floor(options.maxFrames)), never null
CoerceMaxFramesCap(opts) == <<Max(CoerceMinFrames(opts), Floor(opts.maxFrames))>>

\* part_000: options.maxSegments && options.maxSegments > 0 ? Math.floor(..) : undefined
CoerceMaxSegments(opts) ==
    IF opts.maxSegments # <<>> /\ opts.maxSegments[1] # 0 /\ opts.maxSegments[1] > 0
    THEN <<Floor(opts.maxSegments[1])>>
    ELSE <<>>

\* len >= minFrames && (maxFrames === null || len <= maxFrames), on coerced values
LengthOk(len, minF, maxF) == len >= minF /\ (maxF = <<>> \/ len <= maxF[1])

\* ------------------------------------------- freeze log: time to frames
\* Math.round(t * safeFps) for t in halves of a second: floor(t * fps / 2 + 1/2)
RoundFrames(t, f) == (t * f + 1) \div 2

\* the body of the conversion loop for one time range: <<>> (continue) or <<[s, e]>>
FrameRangeKeepsEndFrame(range, f, minF, maxF) ==
    LET startFrame == Max(0, RoundFrames(range.start, f))
        endExclusive == Max(0, RoundFrames(range.end, f))
        s == Max(1, startFrame)
        e == endExclusive
        len == e - s + 1
    IN  IF e < s THEN <<>>
        ELSE IF len < minF THEN <<>>
        ELSE IF maxF # <<>> /\ len > maxF[1] THEN <<>>
        ELSE << <<s, e>> >>

FrameRange(range, f, minF, maxF) ==
    LET startFrame == Max(0, RoundFrames(range.start, f))
        endExclusive == Max(0, RoundFrames(range.end, f))
        s == Max(1, startFrame)
        e == endExclusive - 1
        len == e - s + 1
    IN  IF e < s THEN <<>>
        ELSE IF len < minF THEN <<>>
        ELSE IF maxF # <<>> /\ len > maxF[1] THEN <<>>
        ELSE << <<s, e>> >>

\* const rawRanges = []; for (const { start, end } of rangesByTime) { ... }
RECURSIVE ConvertRanges(_, _, _, _)
ConvertRanges(byTime, f, minF, maxF) ==
    IF byTime = <<>> THEN <<>>
    ELSE FrameRange(Head(byTime), f, minF, maxF) \o ConvertRanges(Tail(byTime), f, minF, maxF)

\* part_000: if (maxSegments && merged.length > maxSegments) merged = merged.slice(0, maxSegments)
TruncateKeepsLast(merged, maxSeg) ==
    IF maxSeg # <<>> /\ maxSeg[1] # 0 /\ Len(merged) > maxSeg[1]
    THEN SubSeq(merged, Len(merged) - maxSeg[1] + 1, Len(merged))
    ELSE merged

Truncate(merged, maxSeg) ==
    IF maxSeg # <<>> /\ maxSeg[1] # 0 /\ Len(merged) > maxSeg[1]
    THEN SubSeq(merged, 1, maxSeg[1])
    ELSE merged

\* ------------------------------------------------ freeze log: the parser
Finite(t) == [finite |-> TRUE, v |-> t]
NotFinite == [finite |-> FALSE, v |-> 0]

\* one line of the log after the observer saw it: startMatch / endMatch handling
FreezeLineClearsOnEmitOnly(st, line) ==
    IF line.marker = "freeze_start"
    THEN [st EXCEPT !.currentStart = <<line.t>>]
    ELSE IF line.marker = "freeze_end" /\ st.currentStart # <<>>
    THEN LET end == line.t
             cs == st.currentStart[1]
         IN  IF end.finite /\ cs.finite /\ end.v >= cs.v
             THEN [currentStart |-> <<>>,
                   rangesByTime |-> Append(st.rangesByTime, [start |-> cs.v, end |-> end.v])]
             ELSE st
    ELSE st

FreezeLine(st, line) ==
    IF line.marker = "freeze_start"
    THEN [st EXCEPT !.currentStart = <<line.t>>]
    ELSE IF line.marker = "freeze_end" /\ st.currentStart # <<>>
    THEN LET end == line.t
             cs == st.currentStart[1]
         IN  [currentStart |-> <<>>,
              rangesByTime |->
                 IF end.finite /\ cs.finite /\ end.v >= cs.v
                 THEN Append(st.rangesByTime, [start |-> cs.v, end |-> end.v])
                 ELSE st.rangesByTime]
    ELSE st

\* the while (true) loop over the complete lines of the buffer
RECURSIVE FreezeLines(_, _)
FreezeLines(st, lines) ==
    IF lines = <<>> THEN st ELSE FreezeLines(FreezeLine(st, Head(lines)), Tail(lines))

\* ------------------------------------ framemd5 lines: hash extraction
\* A line is a sequence of characters.
WhiteSpace == {" ", "\t", "\r", "\n"}

RECURSIVE TrimStart(_)
TrimStart(str) ==
    IF str # <<>> /\ Head(str) \in WhiteSpace THEN TrimStart(Tail(str)) ELSE str

RECURSIVE TrimEnd(_)
TrimEnd(str) ==
    IF str # <<>> /\ str[Len(str)] \in WhiteSpace
    THEN TrimEnd(SubSeq(str, 1, Len(str) - 1))
    ELSE str

Trim(str) == TrimEnd(TrimStart(str))

\* String.prototype.split(sep): the pieces between the separators, at least one
RECURSIVE SplitFrom(_, _, _, _)
SplitFrom(parts, piece, rest, sep) ==
    IF rest = <<>> THEN Append(parts, piece)
    ELSE IF Head(rest) = sep
         THEN SplitFrom(Append(parts, piece), <<>>, Tail(rest), sep)
         ELSE SplitFrom(parts, Append(piece, Head(rest)), Tail(rest), sep)

Split(str, sep) == SplitFrom(<<>>, <<>>, str, sep)

LowerChar(c) ==
    CASE c = "A" -> "a" [] c = "B" -> "b" [] c = "C" -> "c" [] c = "K" -> "k" [] OTHER -> c

ToLowerCase(str) == [i \in 1..Len(str) |-> LowerChar(str[i])]

\* the hash of a line, or <<>> where the code returns null (or an empty string)
extractFrameHashFromFramemd5Line(line) ==
    IF line = <<>> \/ Head(line) = "#" THEN <<>>
    ELSE LET split == Split(line, ",")
             parts == [i \in 1..Len(split) |-> Trim(split[i])]
         IN  IF Len(parts) < 2 THEN <<>>
             ELSE LET last == parts[Len(parts)]
                  IN  IF last = <<>> THEN <<>>
                      ELSE LET pieces == Split(last, "=")
                               raw == IF \E i \in 1..Len(last) : last[i] = "="
                                      THEN pieces[Len(pieces)]
                                      ELSE last
                           IN  ToLowerCase(Trim(raw))

\* --------------------------------------------- duplicate runs: tracking
\* finalizeRun: record the duplicated frames of the open run, then close it
finalizeRunKeepsFirstFrame(st, minF, maxF) ==
    IF st.runStart = <<>> THEN st
    ELSE LET runEnd == st.runStart[1] + st.runLength - 1
             start == st.runStart[1]
             end == runEnd
             len == end - start + 1
         IN  [st EXCEPT !.rawRanges = IF LengthOk(len, minF, maxF)
                                      THEN Append(st.rawRanges, <<start, end>>)
                                      ELSE st.rawRanges,
                        !.runStart = <<>>,
                        !.runLength = 0]

finalizeRunIgnoresBounds(st, minF, maxF) ==
    IF st.runStart = <<>> THEN st
    ELSE LET runEnd == st.runStart[1] + st.runLength - 1
             start == st.runStart[1] + 1
             end == runEnd
         IN  [st EXCEPT !.rawRanges = Append(st.rawRanges, <<start, end>>),
                        !.runStart = <<>>,
                        !.runLength = 0]

finalizeRun(st, minF, maxF) ==
    IF st.runStart = <<>> THEN st
    ELSE LET runEnd == st.runStart[1] + st.runLength - 1
             start == st.runStart[1] + 1
             end == runEnd
             len == end - start + 1
         IN  [st EXCEPT !.rawRanges = IF LengthOk(len, minF, maxF)
                                      THEN Append(st.rawRanges, <<start, end>>)
                                      ELSE st.rawRanges,
                        !.runStart = <<>>,
                        !.runLength = 0]

\* one line of standard output after the observer saw it
DupLineNoHashBreaksRun(st, rawLine, minF, maxF) ==
    LET line == TrimEnd(rawLine)
        hash == extractFrameHashFromFramemd5Line(line)
    IN  IF hash = <<>> THEN [finalizeRun(st, minF, maxF) EXCEPT !.previousHash = <<>>]
        ELSE LET tracked ==
                    IF st.previousHash # <<>> /\ hash = st.previousHash
                    THEN IF st.runStart = <<>>
                         THEN [st EXCEPT !.runStart = <<st.frameIndex - 1>>, !.runLength = 2]
                         ELSE [st EXCEPT !.runLength = st.runLength + 1]
                    ELSE finalizeRun(st, minF, maxF)
             IN  [tracked EXCEPT !.previousHash = hash,
                                 !.frameIndex = st.frameIndex + 1,
                                 !.hashes = Append(st.hashes, hash)]

DupLineRunStartsAtCurrent(st, rawLine, minF, maxF) ==
    LET line == TrimEnd(rawLine)
        hash == extractFrameHashFromFramemd5Line(line)
    IN  IF hash = <<>> THEN st
        ELSE LET tracked ==
                    IF st.previousHash # <<>> /\ hash = st.previousHash
                    THEN IF st.runStart = <<>>
                         THEN [st EXCEPT !.runStart = <<st.frameIndex>>, !.runLength = 2]
                         ELSE [st EXCEPT !.runLength = st.runLength + 1]
                    ELSE finalizeRun(st, minF, maxF)
             IN  [tracked EXCEPT !.previousHash = hash,
                                 !.frameIndex = st.frameIndex + 1,
                                 !.hashes = Append(st.hashes, hash)]

DupLine(st, rawLine, minF, maxF) ==
    LET line == TrimEnd(rawLine)
        hash == extractFrameHashFromFramemd5Line(line)
    IN  IF hash = <<>> THEN st
        ELSE LET tracked ==
                    IF st.previousHash # <<>> /\ hash = st.previousHash
                    THEN IF st.runStart = <<>>
                         THEN [st EXCEPT !.runStart = <<st.frameIndex - 1>>, !.runLength = 2]
                         ELSE [st EXCEPT !.runLength = st.runLength + 1]
                    ELSE finalizeRun(st, minF, maxF)
             IN  [tracked EXCEPT !.previousHash = hash,
                                 !.frameIndex = st.frameIndex + 1,
                                 !.hashes = Append(st.hashes, hash)]

RECURSIVE DupLines(_, _, _, _)
DupLines(st, lines, minF, maxF) ==
    IF lines = <<>> THEN st
    ELSE DupLines(DupLine(st, Head(lines), minF, maxF), Tail(lines), minF, maxF)

\* rawRanges.filter(([, end]) => end < totalFrames - 1)
TailFilterKeepsLastFrame(ranges, totalFrames) ==
    SelectSeq(ranges, LAMBDA r : r[2] <= totalFrames - 1)

TailFilter(ranges, totalFrames) ==
    SelectSeq(ranges, LAMBDA r : r[2] < totalFrames - 1)

\* ------------------------------------------------- the pipe, byte by byte
\* A byte is a one-character string or one of the names below.  The marker texts
\* of the freeze log are held as one byte each: no handler looks inside them
\* before the line is complete.
MarkerStart == "freeze_start:"
MarkerEnd == "freeze_end:"

\* the two bytes of a character outside ASCII, the character, and U+FFFD
LeadByte == "0xC3"
ContinuationByte == "0xA9"
TwoByteChar == "U+00E9"
ReplacementChar == "U+FFFD"

\* chunk.toString(): UTF-8 decoding of the bytes of one chunk, by itself
RECURSIVE Decode(_)
Decode(bytes) ==
    IF bytes = <<>> THEN <<>>
    ELSE IF Head(bytes) = LeadByte
         THEN IF Len(bytes) >= 2 /\ bytes[2] = ContinuationByte
              THEN <<TwoByteChar>> \o Decode(Tail(Tail(bytes)))
              ELSE <<ReplacementChar>> \o Decode(Tail(bytes))
         ELSE IF Head(bytes) = ContinuationByte
              THEN <<ReplacementChar>> \o Decode(Tail(bytes))
              ELSE <<Head(bytes)>> \o Decode(Tail(bytes))

\* buffer.indexOf(c), counted from 1; 0 where the code gets -1
IndexOf(str, c) ==
    IF \E i \in 1..Len(str) : str[i] = c
    THEN CHOOSE i \in 1..Len(str) : str[i] = c /\ \A j \in 1..(i - 1) : str[j] # c
    ELSE 0

Digits == {"0", "1", "2", "3", "4", "5", "6", "7", "8", "9"}

DigitValue(c) ==
    CASE c = "0" -> 0 [] c = "1" -> 1 [] c = "2" -> 2 [] c = "3" -> 3 [] c = "4" -> 4
      [] c = "5" -> 5 [] c = "6" -> 6 [] c = "7" -> 7 [] c = "8" -> 8 [] c = "9" -> 9

RECURSIVE TakeWhile(_, _)
TakeWhile(str, set) ==
    IF str # <<>> /\ Head(str) \in set
    THEN <<Head(str)>> \o TakeWhile(Tail(str), set)
    ELSE <<>>

RECURSIVE IntValue(_, _)
IntValue(acc, ds) ==
    IF ds = <<>> THEN acc ELSE IntValue(10 * acc + DigitValue(Head(ds)), Tail(ds))

\* Number.parseFloat of a text of digits and dots, in halves: the longest prefix
\* digits [. digits]; exact for a fraction that is empty, 0 or 5
ParseFloat(str) ==
    LET whole == TakeWhile(str, Digits)
        rest == SubSeq(str, Len(whole) + 1, Len(str))
        frac == IF rest # <<>> /\ Head(rest) = "." THEN TakeWhile(Tail(rest), Digits) ELSE <<>>
    IN  IF whole = <<>> /\ frac = <<>> THEN NotFinite
        ELSE Finite(2 * IntValue(0, whole)
                      + (IF frac # <<>> /\ Head(frac) = "5" THEN 1 ELSE 0))

\* line.match(/<marker>\s*([0-9.]+)/): the capture of the leftmost match, or <<>>
MatchCapture(line, marker) ==
    LET captureAt(i) == TakeWhile(TrimStart(SubSeq(line, i + 1, Len(line))),
                                  Digits \cup {"."})
        hits == {i \in 1..Len(line) : line[i] = marker /\ captureAt(i) # <<>>}
    IN  IF hits = {} THEN <<>>
        ELSE captureAt(CHOOSE i \in hits : \A j \in hits : i <= j)

\* startMatch / endMatch of a line of text: what FreezeLine is handed
MatchFreezeLine(line) ==
    IF MatchCapture(line, MarkerStart) # <<>>
    THEN [marker |-> "freeze_start", t |-> ParseFloat(MatchCapture(line, MarkerStart))]
    ELSE IF MatchCapture(line, MarkerEnd) # <<>>
    THEN [marker |-> "freeze_end", t |-> ParseFloat(MatchCapture(line, MarkerEnd))]
    ELSE [marker |-> "none", t |-> NotFinite]

\* one onLine call: the text handed over and the parser as it is at the call
Seen(line, parser) == [text |-> line, seen |-> parser]

\* while (true) { idx = buffer.indexOf('\n'); ... } of detectFreezeRanges
RECURSIVE FreezeDrainObservesAfter(_)
FreezeDrainObservesAfter(st) ==
    LET idx == IndexOf(st.buffer, "\n")
    IN  IF idx = 0 THEN st
        ELSE LET line == TrimEnd(SubSeq(st.buffer, 1, idx - 1))
                 after == FreezeLine(st.parser, MatchFreezeLine(line))
             IN  FreezeDrainObservesAfter(
                    [buffer |-> SubSeq(st.buffer, idx + 1, Len(st.buffer)),
                     observed |-> Append(st.observed, Seen(line, after)),
                     parser |-> after])

RECURSIVE FreezeDrain(_)
FreezeDrain(st) ==
    LET idx == IndexOf(st.buffer, "\n")
    IN  IF idx = 0 THEN st
        ELSE LET line == TrimEnd(SubSeq(st.buffer, 1, idx - 1))
             IN  FreezeDrain(
                    [buffer |-> SubSeq(st.buffer, idx + 1, Len(st.buffer)),
                     observed |-> Append(st.observed, Seen(line, st.parser)),
                     parser |-> FreezeLine(st.parser, MatchFreezeLine(line))])

\* the same loop of detectExactDuplicateRanges
RECURSIVE DupDrain(_, _, _)
DupDrain(st, minF, maxF) ==
    LET idx == IndexOf(st.buffer, "\n")
    IN  IF idx = 0 THEN st
        ELSE LET line == TrimEnd(SubSeq(st.buffer, 1, idx - 1))
             IN  DupDrain(
                    [buffer |-> SubSeq(st.buffer, idx + 1, Len(st.buffer)),
                     observed |-> Append(st.observed, Seen(line, st.parser)),
                     parser |-> DupLine(st.parser, line, minF, maxF)],
                    minF, maxF)

\* the 'data' handlers, on the bytes of one chunk: buffer += chunk.toString(), the loop
FreezeOnData(st, chunk) == FreezeDrain([st EXCEPT !.buffer = st.buffer \o Decode(chunk)])

DupOnData(st, chunk, minF, maxF) ==
    DupDrain([st EXCEPT !.buffer = st.buffer \o Decode(chunk)], minF, maxF)

\* ------------------------------------------------ the promise's callers
Resolve(list) == [kind |-> "resolve", value |-> list, err |-> "", code |-> 0]

Reject(what, c) == [kind |-> "reject", value |-> <<>>, err |-> what, code |-> c]

\* ------------------------------------------------- a detector invocation
FreezeDetectors == {"freeze", "freezeCap"}

\* params.fps: frames per second
FpsInputs == {NotFinite, Finite(0 - 1), Finite(0), Finite(1), Finite(3)}

\* params.options.minFrames / maxFrames, in halves
FrameOptionInputs ==
    { [minFrames |-> 0 - 1, maxFrames |-> 0],
      [minFrames |-> 3, maxFrames |-> 0 - 2],
      [minFrames |-> 2, maxFrames |-> 1],
      [minFrames |-> 5, maxFrames |-> 2],
      [minFrames |-> 2, maxFrames |-> 4] }

\* params.options.maxSegments, in halves; only part_000 has the option
SegmentOptionInputs == {<<>>, <<0>>, <<0 - 2>>, <<1>>, <<2>>, <<3>>}

\* the calls made: detector, fps and options
Invocations ==
    {[detector |-> "dup", fps |-> Finite(0),
      options |-> [minFrames |-> fo.minFrames, maxFrames |-> fo.maxFrames,
                   maxSegments |-> <<>>]] : fo \in FrameOptionInputs}
    \cup
    {[detector |-> "freeze", fps |-> f,
      options |-> [minFrames |-> fo.minFrames, maxFrames |-> fo.maxFrames,
                   maxSegments |-> <<>>]] : fo \in FrameOptionInputs, f \in FpsInputs}
    \cup
    {[detector |-> "freezeCap", fps |-> f,
      options |-> [minFrames |-> fo.minFrames, maxFrames |-> fo.maxFrames,
                   maxSegments |-> <<>>]] : fo \in FrameOptionInputs, f \in FpsInputs}
    \cup
    {[detector |-> "freezeCap", fps |-> Finite(3),
      options |-> [minFrames |-> fo.minFrames, maxFrames |-> fo.maxFrames,
                   maxSegments |-> so]] :
         fo \in {o \in FrameOptionInputs : o.maxFrames \in {0, 4}},
         so \in SegmentOptionInputs}

ExitCodes == {0, 1}

\* the lines the freeze log can hold
FreezeLogLines ==
    {[marker |-> "none", t |-> NotFinite]}
    \cup {[marker |-> m, t |-> x] :
             m \in {"freeze_start", "freeze_end"},
             x \in {Finite(t) : t \in 0..MaxTime} \cup {NotFinite}}

\* the lines the framemd5 stream can hold
Framemd5Lines ==
    { <<"#", "f">>,
      <<>>,
      <<"a">>,
      <<"0", ",", " ">>,
      <<"0", ",", "k", "=">>,
      <<"0", ",", " ", "a">>,
      <<"0", ",", "A", "\r">>,
      <<"0", ",", "1", ",", "k", "=", "B">> }

\* A chunk: the line terminators it holds (each ends a line; the first one ends
\* the text already buffered) and whether text follows its last terminator.
Chunks(lineSet, most) ==
    {c \in [lines : UNION {[1..n -> lineSet] : n \in 0..most}, tail : BOOLEAN] :
        c.lines # <<>> \/ c.tail}

\* the chunks of the freeze log: at most two line terminators each
FreezeChunks == Chunks(FreezeLogLines, 2)

\* the chunks of the framemd5 stream: at most two line terminators each
Framemd5Chunks == Chunks(Framemd5Lines, 2)

\* buffer += chunk, then the complete lines leave the buffer
BufferAfter(buf, chunk) ==
    IF chunk.lines = <<>> THEN "partial"
    ELSE IF chunk.tail THEN "partial" ELSE ""

Init ==
    /\ \E call \in Invocations :
          /\ detector = call.detector
          /\ fps = call.fps
          /\ options = call.options
    /\ pc = "called"
    /\ spawnCount = 0 /\ minFrames = 0 /\ maxFrames = <<>> /\ maxSegments = <<>>
    /\ buffer = "" /\ currentStart = <<>> /\ rangesByTime = <<>>
    /\ rawRanges = <<>> /\ frameIndex = 0 /\ previousHash = <<>>
    /\ runStart = <<>> /\ runLength = 0 /\ hashes = <<>>
    /\ calls = <<>> /\ exitCode = <<>> /\ logLines = 0
    /\ sBytes = <<>> /\ sPos = 0 /\ received = <<>> /\ observed = <<>> /\ stderrObserved = <<>>
    /\ mInput = <<>> /\ mOnce = <<>> /\ mTwice = <<>> /\ mPerm = <<>>

\* const safeFps = Number.isFinite(fps) && fps > 0 ? fps : 0
SafeFpsAcceptsNegative(f) == IF f.finite /\ f.v # 0 THEN f.v ELSE 0

SafeFps(f) == IF f.finite /\ f.v > 0 THEN f.v ELSE 0

\* detectFreezeRanges up to spawn: the fps guard, the coercions, the launch
CallFreeze ==
    /\ detector \in FreezeDetectors /\ pc = "called"
    /\ IF SafeFps(fps) # 0
       THEN /\ minFrames' = CoerceMinFrames(options)
            /\ maxFrames' = IF detector = "freezeCap" THEN CoerceMaxFramesCap(options)
                            ELSE CoerceMaxFrames(options)
            /\ maxSegments' = IF detector = "freezeCap" THEN CoerceMaxSegments(options)
                              ELSE <<>>
            /\ spawnCount' = spawnCount + 1
            /\ pc' = "spawned"
            /\ calls' = calls
       ELSE /\ pc' = "returned"
            /\ calls' = Append(calls, Resolve(<<>>))
            /\ UNCHANGED <<minFrames, maxFrames, maxSegments, spawnCount>>
    /\ UNCHANGED <<detector, fps, options, buffer, currentStart, rangesByTime, rawRanges,
                   frameIndex, previousHash, runStart, runLength, hashes, exitCode>>
    /\ UNCHANGED <<logLines, mInput, mOnce, mTwice, mPerm>>
    /\ UNCHANGED streamVars

\* detectExactDuplicateRanges up to spawn
CallDup ==
    /\ detector = "dup" /\ pc = "called"
    /\ minFrames' = CoerceMinFrames(options)
    /\ maxFrames' = CoerceMaxFrames(options)
    /\ spawnCount' = spawnCount + 1
    /\ pc' = "spawned"
    /\ UNCHANGED <<detector, fps, options, maxSegments, buffer, currentStart, rangesByTime,
                   rawRanges, frameIndex, previousHash, runStart, runLength, hashes,
                   calls, exitCode>>
    /\ UNCHANGED <<logLines, mInput, mOnce, mTwice, mPerm>>
    /\ UNCHANGED streamVars

\* proc.stderr.on('data') of detectFreezeRanges
FreezeData ==
    /\ detector \in FreezeDetectors /\ pc = "spawned"
    /\ \A i \in 1..Len(calls) : calls[i].err # "spawn"
    /\ \E chunk \in FreezeChunks :
          LET st == FreezeLines([currentStart |-> currentStart,
                                 rangesByTime |-> rangesByTime], chunk.lines)
          IN  /\ logLines + Len(chunk.lines) <= MaxLogLines
              /\ logLines' = logLines + Len(chunk.lines)
              /\ currentStart' = st.currentStart
              /\ rangesByTime' = st.rangesByTime
              /\ buffer' = BufferAfter(buffer, chunk)
    /\ UNCHANGED <<detector, fps, options, pc, spawnCount, minFrames, maxFrames,
                   maxSegments, rawRanges, frameIndex, previousHash, runStart, runLength,
                   hashes, calls, exitCode>>
    /\ UNCHANGED mergeVars
    /\ UNCHANGED streamVars

\* proc.stdout.on('data') of detectExactDuplicateRanges
DupData ==
    /\ detector = "dup" /\ pc = "spawned"
    /\ \A i \in 1..Len(calls) : calls[i].err # "spawn"
    /\ \E chunk \in Framemd5Chunks :
          LET st == DupLines([rawRanges |-> rawRanges, frameIndex |-> frameIndex,
                              previousHash |-> previousHash, runStart |-> runStart,
                              runLength |-> runLength, hashes |-> hashes],
                             chunk.lines, minFrames, maxFrames)
          IN  /\ st.frameIndex <= MaxFrameCount
              /\ rawRanges' = st.rawRanges
              /\ frameIndex' = st.frameIndex
              /\ previousHash' = st.previousHash
              /\ runStart' = st.runStart
              /\ runLength' = st.runLength
              /\ hashes' = st.hashes
              /\ buffer' = BufferAfter(buffer, chunk)
    /\ UNCHANGED <<detector, fps, options, pc, spawnCount, minFrames, maxFrames,
                   maxSegments, currentStart, rangesByTime, calls, exitCode>>
    /\ UNCHANGED <<logLines, mInput, mOnce, mTwice, mPerm>>
    /\ UNCHANGED streamVars

\* the closure's parser variables
FreezeParser == [currentStart |-> currentStart, rangesByTime |-> rangesByTime]

DupParser == [rawRanges |-> rawRanges, frameIndex |-> frameIndex,
              previousHash |-> previousHash, runStart |-> runStart,
              runLength |-> runLength, hashes |-> hashes]

\* what the duplicate detector's process may write to standard error in one chunk
StderrChunks == { <<"w", "\n">> }

\* proc.stderr.on('data') of detectExactDuplicateRanges: the chunk goes to onLine whole
DupStderrData ==
    /\ detector = "dup" /\ pc = "spawned"
    /\ \A i \in 1..Len(calls) : calls[i].err # "spawn"
    /\ Len(stderrObserved) < MaxStderrChunks
    /\ \E chunk \in StderrChunks :
          stderrObserved' = Append(stderrObserved, TrimEnd(Decode(chunk)))
    /\ UNCHANGED <<detector, fps, options, pc, spawnCount, minFrames, maxFrames,
                   maxSegments, buffer, currentStart, rangesByTime, rawRanges, frameIndex,
                   previousHash, runStart, runLength, hashes, calls, exitCode, logLines,
                   sBytes, sPos, received, observed>>
    /\ UNCHANGED mergeVars

\* proc.on('error', err => reject(err)).  The code never kills or messages the
\* process, so Node emits 'error' only for a failed launch: once, before any output.
ProcErrorRelaunches ==
    /\ pc = "spawned"
    /\ calls = <<>> /\ buffer = "" /\ logLines = 0 /\ frameIndex = 0
    /\ stderrObserved = <<>>
    /\ spawnCount' = spawnCount + 1
    /\ calls' = Append(calls, Reject("spawn", 0))
    /\ UNCHANGED <<detector, fps, options, pc, minFrames, maxFrames,
                   maxSegments, buffer, currentStart, rangesByTime, rawRanges, frameIndex,
                   previousHash, runStart, runLength, hashes, exitCode>>
    /\ UNCHANGED <<logLines, mInput, mOnce, mTwice, mPerm>>
    /\ UNCHANGED streamVars

ProcError ==
    /\ pc = "spawned"
    /\ calls = <<>> /\ buffer = "" /\ logLines = 0 /\ frameIndex = 0
    /\ stderrObserved = <<>>
    /\ calls' = Append(calls, Reject("spawn", 0))
    /\ UNCHANGED <<detector, fps, options, pc, spawnCount, minFrames, maxFrames,
                   maxSegments, buffer, currentStart, rangesByTime, rawRanges, frameIndex,
                   previousHash, runStart, runLength, hashes, exitCode>>
    /\ UNCHANGED <<logLines, mInput, mOnce, mTwice, mPerm>>
    /\ UNCHANGED streamVars

\* what the 'close' handler of detectFreezeRanges passes to resolve
FreezeResult(d, byTime, f, minF, maxF, maxSeg) ==
    LET merged == mergeRanges(ConvertRanges(byTime, f, minF, maxF))
    IN  IF d = "freezeCap" THEN Truncate(merged, maxSeg) ELSE merged

\* the 'close' handler's choice between reject and the conversion
FreezeCloseCallRejectsNonZero(code, byTime, result) ==
    IF code # 0 THEN Reject("exit", code) ELSE Resolve(result)

FreezeCloseCall(code, byTime, result) ==
    IF code # 0 /\ Len(byTime) = 0 THEN Reject("exit", code) ELSE Resolve(result)

\* proc.on('close') of detectFreezeRanges
FreezeClose ==
    /\ detector \in FreezeDetectors /\ pc = "spawned"
    /\ \E code \in ExitCodes :
          /\ exitCode' = <<code>>
          /\ calls' = Append(calls,
                FreezeCloseCall(code, rangesByTime,
                    FreezeResult(detector, rangesByTime, fps.v, minFrames, maxFrames,
                                 maxSegments)))
          /\ rawRanges' = IF code # 0 /\ Len(rangesByTime) = 0 THEN rawRanges
                          ELSE ConvertRanges(rangesByTime, fps.v, minFrames, maxFrames)
    /\ pc' = "closed"
    /\ UNCHANGED <<detector, fps, options, spawnCount, minFrames, maxFrames, maxSegments,
                   buffer, currentStart, rangesByTime, frameIndex,
                   previousHash, runStart, runLength, hashes>>
    /\ UNCHANGED <<logLines, mInput, mOnce, mTwice, mPerm>>
    /\ UNCHANGED streamVars

\* the 'close' handler's choice between reject and the final filtering
DupCloseRejectsNonZero(code, frames) == code # 0

DupCloseRejects(code, frames) == code # 0 /\ frames = 0

\* proc.on('close') of detectExactDuplicateRanges
DupClose ==
    /\ detector = "dup" /\ pc = "spawned"
    /\ \E code \in ExitCodes :
          /\ exitCode' = <<code>>
          /\ IF DupCloseRejects(code, frameIndex)
             THEN /\ calls' = Append(calls, Reject("exit", code))
                  /\ UNCHANGED <<rawRanges, runStart, runLength>>
             ELSE LET st == finalizeRun([rawRanges |-> rawRanges, frameIndex |-> frameIndex,
                                         previousHash |-> previousHash,
                                         runStart |-> runStart, runLength |-> runLength,
                                         hashes |-> hashes], minFrames, maxFrames)
                      totalFrames == frameIndex
                      filtered == TailFilter(st.rawRanges, totalFrames)
                  IN  /\ rawRanges' = st.rawRanges
                      /\ runStart' = st.runStart
                      /\ runLength' = st.runLength
                      /\ calls' = Append(calls, Resolve(mergeRanges(filtered)))
    /\ pc' = "closed"
    /\ UNCHANGED <<detector, fps, options, spawnCount, minFrames, maxFrames, maxSegments,
                   buffer, currentStart, rangesByTime, frameIndex, previousHash, hashes>>
    /\ UNCHANGED <<logLines, mInput, mOnce, mTwice, mPerm>>
    /\ UNCHANGED streamVars

Next ==
    \/ CallFreeze \/ CallDup \/ FreezeData \/ DupData \/ DupStderrData
    \/ ProcError \/ FreezeClose \/ DupClose

Spec == Init /\ [][Next]_vars

\* the promise settles with the first resolve / reject call
Settled == calls # <<>>
Outcome == calls[1]

\* the call the 'close' handler made (the last one once the process closed)
CloseCall == calls[Len(calls)]

\* the promise resolved with a list computed by the 'close' handler
Returned == pc = "closed" /\ Outcome.kind = "resolve"

\* ===================================================================== C1
Canonical(list) ==
    /\ \A i \in 1..Len(list) : list[i][1] <= list[i][2]
    /\ \A i \in 1..(Len(list) - 1) : list[i + 1][1] >= list[i][2] + 2

\* C1: every list a detector returns (detectFreezeRanges in both variants, after
\* the truncation to maxSegments, and detectExactDuplicateRanges) is canonical:
\* start <= end in each pair, and each next start >= previous end + 2.
C1_ResultCanonical ==
    (Settled /\ Outcome.kind = "resolve") => Canonical(Outcome.value)

\* a freeze log whose converted ranges overlap or touch, so that the merger joined them
C1_Witness ==
    /\ Returned /\ detector \in FreezeDetectors
    /\ Len(rangesByTime) >= 2
    /\ \E i \in 1..(Len(rawRanges) - 1) : rawRanges[i + 1][1] <= rawRanges[i][2] + 1
    /\ Len(Outcome.value) >= 1

\* ===================================================================== C2
\* frame i (0-based) of the stream carries hashes[i + 1]
HashOf(i) == hashes[i + 1]

\* <<r, k>>: a maximal run of k >= 2 identical hashes starting at frame r
MaximalRuns ==
    LET n == Len(hashes)
    IN  {run \in (0..(n - 1)) \X (2..n) :
            LET r == run[1]
                k == run[2]
            IN  /\ r + k <= n
                /\ \A i \in r..(r + k - 1) : HashOf(i) = HashOf(r)
                /\ (r = 0 \/ HashOf(r - 1) # HashOf(r))
                /\ (r + k = n \/ HashOf(r + k) # HashOf(r))}

\* the runs whose duplicate count passes the length filter and that end before
\* the last frame of the stream
QualifyingRuns ==
    {run \in MaximalRuns :
        /\ run[2] - 1 >= minFrames
        /\ (maxFrames = <<>> \/ run[2] - 1 <= maxFrames[1])
        /\ run[1] + run[2] - 1 < Len(hashes) - 1}

ListedRanges(list) == {list[i] : i \in 1..Len(list)}

\* C2: detectExactDuplicateRanges returns exactly one range [r+1, r+k-1] for each
\* maximal run of k >= 2 identical hashes at frame r that passes the length filter
\* and ends before the last frame, nothing else, and never the first frame of a run.
C2_DuplicateRunsExtracted ==
    (Returned /\ detector = "dup") =>
        /\ ListedRanges(Outcome.value)
              = {<<run[1] + 1, run[1] + run[2] - 1>> : run \in QualifyingRuns}
        /\ Len(Outcome.value) = Cardinality(QualifyingRuns)
        /\ \A run \in MaximalRuns : \A i \in 1..Len(Outcome.value) :
              ~(Outcome.value[i][1] <= run[1] /\ run[1] <= Outcome.value[i][2])

\* the example of the claim: hashes A,B,B,B,A with minFrames = 1 give [[2,3]]
C2_Witness ==
    /\ Returned /\ detector = "dup"
    /\ minFrames = 1
    /\ hashes = << <<"a">>, <<"b">>, <<"b">>, <<"b">>, <<"a">> >>
    /\ Outcome.value = << <<2, 3>> >>

\* ===================================================================== C3
\* C3: in detectExactDuplicateRanges a run that ends at the last frame of the
\* stream contributes no range (no returned range reaches into its duplicated
\* frames), and every returned range ends at or before totalFrames - 2.
C3_TailRunExcluded ==
    (Returned /\ detector = "dup") =>
        /\ \A i \in 1..Len(Outcome.value) : Outcome.value[i][2] <= frameIndex - 2
        /\ \A run \in MaximalRuns :
              run[1] + run[2] = Len(hashes) =>
                 \A i \in 1..Len(Outcome.value) : Outcome.value[i][2] < run[1] + 1

\* a stream that ends inside a run whose length passes the filter, after an
\* earlier run that was returned
C3_Witness ==
    /\ Returned /\ detector = "dup"
    /\ Len(Outcome.value) >= 1
    /\ \E run \in MaximalRuns :
          /\ run[1] + run[2] = Len(hashes)
          /\ LengthOk(run[2] - 1, minFrames, maxFrames)
          /\ <<run[1] + 1, run[1] + run[2] - 1>> \in ListedRanges(rawRanges)

\* ===================================================================== C4
\* s and e of a parsed time range, as the claim states them
ClaimedStart(range) == Max(1, RoundFrames(range.start, fps.v))
ClaimedEnd(range) == RoundFrames(range.end, fps.v) - 1

ClaimedToSurvive(range) ==
    LET len == ClaimedEnd(range) - ClaimedStart(range) + 1
    IN  ~ \/ ClaimedEnd(range) < ClaimedStart(range)
          \/ len < minFrames
          \/ (maxFrames # <<>> /\ len > maxFrames[1])

RECURSIVE ClaimedRawRanges(_)
ClaimedRawRanges(byTime) ==
    IF byTime = <<>> THEN <<>>
    ELSE (IF ClaimedToSurvive(Head(byTime))
          THEN << <<ClaimedStart(Head(byTime)), ClaimedEnd(Head(byTime))>> >>
          ELSE <<>>) \o ClaimedRawRanges(Tail(byTime))

\* C4: in detectFreezeRanges each parsed time range contributes nothing when its
\* interior [s, e] is empty, shorter than minFrames or longer than the enabled
\* maxFrames, and exactly [s, e] otherwise, to the list handed to the merger; a
\* single surviving freeze is the whole result.  minFrames and maxFrames are the
\* coerced bounds of the variant at hand.
C4_FreezeFilter ==
    (pc = "closed" /\ detector \in FreezeDetectors /\ CloseCall.kind = "resolve") =>
        /\ rawRanges = ClaimedRawRanges(rangesByTime)
        /\ Len(rawRanges) = 1 => CloseCall.value = rawRanges

\* two parsed freezes, one too long for the enabled upper bound, one returned
C4_Witness ==
    /\ Returned /\ detector \in FreezeDetectors
    /\ Len(rangesByTime) = 2
    /\ maxFrames # <<>>
    /\ \E i \in 1..2 :
          ClaimedEnd(rangesByTime[i]) - ClaimedStart(rangesByTime[i]) + 1 > maxFrames[1]
    /\ Len(rawRanges) = 1
    /\ Outcome.value = rawRanges

\* ===================================================================== C5
\* C5: in both detectors a maxFrames option <= 0 disables the upper bound (every
\* length >= minFrames passes the filter), a positive one becomes an integer bound
\* >= minFrames, a run of exactly minFrames frames always passes, and minFrames
\* becomes an integer >= 1.
C5_MaxFramesCoercion ==
    pc \in {"spawned", "closed"} =>
        /\ minFrames \in Nat /\ minFrames >= 1
        /\ options.maxFrames <= 0 =>
              /\ \A len \in minFrames..(minFrames + MaxTime) :
                    LengthOk(len, minFrames, maxFrames)
              /\ (pc = "closed" /\ detector \in FreezeDetectors
                     /\ CloseCall.kind = "resolve") =>
                    \A i \in 1..Len(rangesByTime) :
                       LET s == ClaimedStart(rangesByTime[i])
                           e == ClaimedEnd(rangesByTime[i])
                       IN  (e >= s /\ e - s + 1 >= minFrames) =>
                              <<s, e>> \in ListedRanges(rawRanges)
        /\ options.maxFrames > 0 =>
              maxFrames # <<>> /\ maxFrames[1] \in Nat /\ maxFrames[1] >= minFrames
        /\ LengthOk(minFrames, minFrames, maxFrames)

\* ===================================================================== C6
\* C6: in detectFreezeRanges (part_000), with a positive maxSegments and more
\* merged ranges than maxSegments the result is exactly the first maxSegments
\* ranges of the merged list; with maxSegments absent or non-positive the merged
\* list is returned whole.  maxSegments is the coerced cap (the floored option).
C6_SegmentCap ==
    (Returned /\ detector = "freezeCap") =>
        LET merged == mergeRanges(rawRanges)
        IN  /\ IF maxSegments # <<>> /\ maxSegments[1] > 0 /\ Len(merged) > maxSegments[1]
               THEN Outcome.value = SubSeq(merged, 1, maxSegments[1])
               ELSE Outcome.value = merged
            /\ (options.maxSegments = <<>> \/ options.maxSegments[1] <= 0) =>
                  Outcome.value = merged

\* two merged ranges cut down to the first one
C6_Witness ==
    /\ Returned /\ detector = "freezeCap"
    /\ Len(mergeRanges(rawRanges)) = 2
    /\ maxSegments = <<1>>
    /\ Outcome.value = << mergeRanges(rawRanges)[1] >>

\* ==================================================================== C10
\* C10: when the freeze filter closes with a non-zero code, the 'close' handler
\* rejects with the exit code if no time range was parsed and resolves with the
\* ranges of what was parsed otherwise; with code 0 it always resolves.  That
\* call settles the promise unless a launch 'error' rejected it before.
C10_FreezeExitCode ==
    (pc = "closed" /\ detector \in FreezeDetectors) =>
        LET code == exitCode[1]
            result == IF detector = "freezeCap"
                      THEN Truncate(mergeRanges(rawRanges), maxSegments)
                      ELSE mergeRanges(rawRanges)
        IN  /\ (code # 0 /\ rangesByTime = <<>>) => CloseCall = Reject("exit", code)
            /\ (code # 0 /\ rangesByTime # <<>>) =>
                  CloseCall = Resolve(result) /\ rawRanges = ClaimedRawRanges(rangesByTime)
            /\ code = 0 => CloseCall = Resolve(result)
            /\ Len(calls) = 1 => Outcome = CloseCall

\* a non-zero exit after a parsed freeze: the freeze is returned
C10_Witness ==
    /\ pc = "closed" /\ detector \in FreezeDetectors
    /\ exitCode = <<1>>
    /\ rangesByTime # <<>>
    /\ Outcome.kind = "resolve"
    /\ Outcome.value # <<>>

\* ==================================================================== C11
\* C11: when the framemd5 process closes with a non-zero code, the 'close' handler
\* rejects with the exit code if no frame (valid hash line) was processed, and
\* otherwise resolves exactly as on a clean exit: the open run is finalized, the
\* tail filter applied, and the result is one range per qualifying run.
C11_DupExitCode ==
    (pc = "closed" /\ detector = "dup") =>
        LET code == exitCode[1]
        IN  /\ (code # 0 /\ Len(hashes) = 0) => CloseCall = Reject("exit", code)
            /\ (code # 0 /\ Len(hashes) > 0) =>
                  /\ CloseCall.kind = "resolve"
                  /\ runStart = <<>> /\ runLength = 0
                  /\ CloseCall.value = mergeRanges(TailFilter(rawRanges, Len(hashes)))
                  /\ ListedRanges(CloseCall.value)
                        = {<<run[1] + 1, run[1] + run[2] - 1>> : run \in QualifyingRuns}
                  /\ Len(CloseCall.value) = Cardinality(QualifyingRuns)
            /\ Len(calls) = 1 => Outcome = CloseCall

\* a non-zero exit after a returned run and inside a run that reaches the last frame
C11_Witness ==
    /\ pc = "closed" /\ detector = "dup"
    /\ exitCode = <<1>>
    /\ Outcome.kind = "resolve"
    /\ Len(Outcome.value) >= 1
    /\ Len(rawRanges) > Len(Outcome.value)
    /\ \E run \in MaximalRuns : run[1] + run[2] = Len(hashes)

\* ==================================================================== C12
\* what every step keeps, whatever the order of data, 'error' and 'close': at most
\* one launch, none after the call started the process, an outcome that later
\* events leave alone, and an outcome once the process closed
C12_EveryStep ==
    /\ spawnCount' <= 1
    /\ pc # "called" => spawnCount' = spawnCount
    /\ Settled => (Settled' /\ Outcome' = Outcome)
    /\ pc' = "closed" => Settled'
    /\ (Settled /\ Outcome.err = "spawn" /\ pc' = "closed") => Outcome' = Reject("spawn", 0)

\* C12 as stated: every detector invocation launches exactly one process and its
\* one outcome is delivered only when the process closed or failed to launch; no
\* later event changes the outcome and the process is never relaunched.
C12_OneProcessOneOutcome ==
    [][ /\ C12_EveryStep
        /\ Settled' => spawnCount' = 1
        /\ Settled' => (pc' = "closed" \/ Outcome'.err = "spawn") ]_vars

\* C12 amended: the same for every invocation that launches a process; a
\* detectFreezeRanges call stopped by the frame-rate guard launches none and
\* delivers its one outcome, the empty list, at once.
C12_OneProcessOneOutcomeIfLaunched ==
    [][ /\ C12_EveryStep
        /\ pc' \in {"spawned", "closed"} => spawnCount' = 1
        /\ (Settled' /\ pc' # "returned") => (pc' = "closed" \/ Outcome'.err = "spawn")
        /\ pc' = "returned" =>
              (spawnCount' = 0 /\ calls' = <<Resolve(<<>>)>> /\ SafeFps(fps) = 0) ]_vars

\* a launch error followed by a 'close' whose handler resolves: the error stays
C12_Witness ==
    /\ pc = "closed" /\ spawnCount = 1
    /\ Len(calls) = 2
    /\ Outcome = Reject("spawn", 0)
    /\ CloseCall.kind = "resolve"

\* ==================================================================== C13
\* C13: detectFreezeRanges called with a frame rate that is zero, negative or not
\* finite never launches the process and returns the empty list, whatever the
\* options are.
C13_BadFpsShortCircuit ==
    (detector \in FreezeDetectors /\ ~(fps.finite /\ fps.v > 0)) =>
        /\ spawnCount = 0
        /\ pc \in {"called", "returned"}
        /\ pc = "called" => calls = <<>>
        /\ pc = "returned" => calls = <<Resolve(<<>>)>>

\* a negative frame rate with an enabled upper bound in the options: [] at once
C13_Witness ==
    /\ detector \in FreezeDetectors /\ pc = "returned"
    /\ fps = Finite(0 - 1)
    /\ options.maxFrames > 0
    /\ Outcome = Resolve(<<>>)

\* ==================================================================== C14
\* the parser of a running freeze detector and what one more line makes of it
ParserNow == [currentStart |-> currentStart, rangesByTime |-> rangesByTime]

\* end >= pending start, as numbers: false when either is not a number
EndReachesStart(st, line) ==
    st.currentStart # <<>> /\ line.t.finite /\ st.currentStart[1].finite
       /\ line.t.v >= st.currentStart[1].v

\* the protocol's clauses that do not speak of when the pending start is cleared
C14_Pairing(st, line, after) ==
    /\ line.marker = "freeze_start" =>
          after = [st EXCEPT !.currentStart = <<line.t>>]
    /\ (line.marker = "freeze_end" /\ EndReachesStart(st, line)) =>
          /\ after.rangesByTime = Append(st.rangesByTime,
                  [start |-> st.currentStart[1].v, end |-> line.t.v])
          /\ after.currentStart = <<>>
    /\ (line.marker = "freeze_end" /\ st.currentStart = <<>>) => after = st
    /\ line.marker = "none" => after = st
    /\ \/ after.rangesByTime = st.rangesByTime
       \/ /\ Len(after.rangesByTime) = Len(st.rangesByTime) + 1
          /\ SubSeq(after.rangesByTime, 1, Len(st.rangesByTime)) = st.rangesByTime

\* C14 as stated: the pairing protocol, and the pending start is cleared exactly
\* when a time range is emitted.
C14_ClearedExactlyOnEmit ==
    (pc = "spawned" /\ detector \in FreezeDetectors) =>
        \A line \in FreezeLogLines :
            LET after == FreezeLine(ParserNow, line)
            IN  /\ C14_Pairing(ParserNow, line, after)
                /\ (currentStart # <<>> /\ after.currentStart = <<>>)
                      <=> Len(after.rangesByTime) = Len(rangesByTime) + 1

\* C14 amended: the pairing protocol, and the pending start is cleared by every
\* freeze-end line that finds one, whether the line emits a time range (end a
\* number >= the pending start) or is dropped (end below the start, or one of
\* them not a number); a range is emitted only by such a clearing line.
C14_ClearedByEveryEnd ==
    (pc = "spawned" /\ detector \in FreezeDetectors) =>
        \A line \in FreezeLogLines :
            LET after == FreezeLine(ParserNow, line)
            IN  /\ C14_Pairing(ParserNow, line, after)
                /\ (currentStart # <<>> /\ after.currentStart = <<>>)
                      <=> (line.marker = "freeze_end" /\ currentStart # <<>>)
                /\ Len(after.rangesByTime) = Len(rangesByTime) + 1
                      <=> (line.marker = "freeze_end" /\ EndReachesStart(ParserNow, line))

\* after one emitted range, a pending start later than some end the log can still bring
C14_Witness ==
    /\ pc = "spawned" /\ detector \in FreezeDetectors
    /\ Len(rangesByTime) = 1
    /\ currentStart = <<Finite(2)>>
    /\ logLines < MaxLogLines

\* ------------------------------------- a detector fed a stream of bytes
\* the lines a freeze log is made of here
FreezeStreamLines ==
    { <<MarkerStart, " ", "1">>,
      <<MarkerEnd, " ", "2", "\r">>,
      <<MarkerEnd, "0", ".", "5">>,
      <<MarkerStart, ".">>,
      <<LeadByte, ContinuationByte>> }

\* the lines a framemd5 stream is made of here
Framemd5StreamLines ==
    { <<",", LeadByte, ContinuationByte>>,
      <<"#", ",", "a">>,
      <<>>,
      <<"a">>,
      <<",", "k", "=">> }

\* what the process may write after its last newline
FreezeStreamTails == {<<>>, <<MarkerEnd, " ", "2">>}
Framemd5StreamTails == {<<>>, <<",", "a">>}

RECURSIVE JoinLines(_)
JoinLines(lines) ==
    IF lines = <<>> THEN <<>> ELSE Head(lines) \o <<"\n">> \o JoinLines(Tail(lines))

Streams(lineSet, tails) ==
    {JoinLines(ls) \o t : ls \in UNION {[1..n -> lineSet] : n \in 0..MaxStreamLines},
                          t \in tails}

FreezeStreams == Streams(FreezeStreamLines, FreezeStreamTails)
Framemd5Streams == Streams(Framemd5StreamLines, Framemd5StreamTails)

InitStream ==
    /\ \/ detector = "freeze" /\ sBytes \in FreezeStreams
       \/ detector = "dup" /\ sBytes \in Framemd5Streams
    /\ fps = Finite(3)
    /\ options = [minFrames |-> 2, maxFrames |-> 0, maxSegments |-> <<>>]
    /\ pc = "called"
    /\ spawnCount = 0 /\ minFrames = 0 /\ maxFrames = <<>> /\ maxSegments = <<>>
    /\ buffer = <<>> /\ currentStart = <<>> /\ rangesByTime = <<>>
    /\ rawRanges = <<>> /\ frameIndex = 0 /\ previousHash = <<>>
    /\ runStart = <<>> /\ runLength = 0 /\ hashes = <<>>
    /\ calls = <<>> /\ exitCode = <<>> /\ logLines = 0
    /\ sPos = 0 /\ received = <<>> /\ observed = <<>> /\ stderrObserved = <<>>
    /\ mInput = <<>> /\ mOnce = <<>> /\ mTwice = <<>> /\ mPerm = <<>>

\* proc.stderr.on('data') of detectFreezeRanges: the next bytes of the pipe, any number
FreezeStreamData ==
    /\ detector \in FreezeDetectors /\ pc = "spawned"
    /\ \E k \in 1..(Len(sBytes) - sPos) :
          LET chunk == SubSeq(sBytes, sPos + 1, sPos + k)
              st == FreezeOnData([buffer |-> buffer, parser |-> FreezeParser,
                                  observed |-> observed], chunk)
          IN  /\ sPos' = sPos + k
              /\ received' = received \o Decode(chunk)
              /\ buffer' = st.buffer
              /\ observed' = st.observed
              /\ currentStart' = st.parser.currentStart
              /\ rangesByTime' = st.parser.rangesByTime
    /\ UNCHANGED <<detector, fps, options, pc, spawnCount, minFrames, maxFrames,
                   maxSegments, rawRanges, frameIndex, previousHash, runStart, runLength,
                   hashes, calls, exitCode, logLines, sBytes, stderrObserved>>
    /\ UNCHANGED mergeVars

\* proc.stdout.on('data') of detectExactDuplicateRanges: the next bytes of the pipe
DupStreamData ==
    /\ detector = "dup" /\ pc = "spawned"
    /\ \E k \in 1..(Len(sBytes) - sPos) :
          LET chunk == SubSeq(sBytes, sPos + 1, sPos + k)
              st == DupOnData([buffer |-> buffer, parser |-> DupParser,
                               observed |-> observed], chunk, minFrames, maxFrames)
          IN  /\ sPos' = sPos + k
              /\ received' = received \o Decode(chunk)
              /\ buffer' = st.buffer
              /\ observed' = st.observed
              /\ rawRanges' = st.parser.rawRanges
              /\ frameIndex' = st.parser.frameIndex
              /\ previousHash' = st.parser.previousHash
              /\ runStart' = st.parser.runStart
              /\ runLength' = st.parser.runLength
              /\ hashes' = st.parser.hashes
    /\ UNCHANGED <<detector, fps, options, pc, spawnCount, minFrames, maxFrames,
                   maxSegments, currentStart, rangesByTime, calls, exitCode, logLines,
                   sBytes, stderrObserved>>
    /\ UNCHANGED mergeVars

\* 'close' comes once the pipes have ended: every byte was delivered
FreezeStreamClose == sPos = Len(sBytes) /\ FreezeClose

DupStreamClose == sPos = Len(sBytes) /\ DupClose

NextStream ==
    \/ CallFreeze \/ CallDup
    \/ FreezeStreamData \/ DupStreamData
    \/ FreezeStreamClose \/ DupStreamClose

SpecStream == InitStream /\ [][NextStream]_vars

\* ==================================================================== C15
\* the parser variables as the call sets them up
FreezeParserInit == [currentStart |-> <<>>, rangesByTime |-> <<>>]

DupParserInit == [rawRanges |-> <<>>, frameIndex |-> 0, previousHash |-> <<>>,
                  runStart |-> <<>>, runLength |-> 0, hashes |-> <<>>]

\* the same bytes delivered in one chunk
FreezeInOneChunk ==
    FreezeOnData([buffer |-> <<>>, parser |-> FreezeParserInit, observed |-> <<>>], sBytes)

DupInOneChunk ==
    DupOnData([buffer |-> <<>>, parser |-> DupParserInit, observed |-> <<>>], sBytes,
              minFrames, maxFrames)

TextsOf(obs) == [i \in 1..Len(obs) |-> obs[i].text]

\* C15: however the bytes of the parsed pipe are cut into chunks (inside a line,
\* or several lines to a chunk), the detector hands the same lines to the
\* observer, reaches the same parser state when the pipe has ended and makes the
\* same call at 'close' as when the bytes come in one chunk.
C15_ChunkingIndependent ==
    (pc \in {"spawned", "closed"} /\ sPos = Len(sBytes)) =>
        IF detector = "dup"
        THEN LET one == DupInOneChunk
                 atClose == finalizeRun(one.parser, minFrames, maxFrames)
             IN  /\ TextsOf(observed) = TextsOf(one.observed)
                 /\ buffer = one.buffer
                 /\ pc = "spawned" => DupParser = one.parser
                 /\ pc = "closed" =>
                       /\ hashes = one.parser.hashes
                       /\ CloseCall =
                            IF DupCloseRejects(exitCode[1], one.parser.frameIndex)
                            THEN Reject("exit", exitCode[1])
                            ELSE Resolve(mergeRanges(TailFilter(atClose.rawRanges,
                                                                one.parser.frameIndex)))
        ELSE LET one == FreezeInOneChunk
             IN  /\ TextsOf(observed) = TextsOf(one.observed)
                 /\ buffer = one.buffer
                 /\ FreezeParser = one.parser
                 /\ pc = "closed" =>
                       CloseCall = FreezeCloseCall(exitCode[1], one.parser.rangesByTime,
                                      FreezeResult(detector, one.parser.rangesByTime, fps.v,
                                                   minFrames, maxFrames, maxSegments))

\* ==================================================================== C16
\* the lines of a text that a newline ends, and the text after its last newline
CompleteLines(text) == SubSeq(Split(text, "\n"), 1, Len(Split(text, "\n")) - 1)

Unterminated(text) == Split(text, "\n")[Len(Split(text, "\n"))]

\* the parser after the first k of the lines
RECURSIVE FreezeParsed(_, _)
FreezeParsed(lines, k) ==
    IF k = 0 THEN FreezeParserInit
    ELSE FreezeLine(FreezeParsed(lines, k - 1), MatchFreezeLine(TrimEnd(lines[k])))

RECURSIVE DupParsed(_, _)
DupParsed(lines, k) ==
    IF k = 0 THEN DupParserInit
    ELSE DupLine(DupParsed(lines, k - 1), lines[k], minFrames, maxFrames)

\* C16: on the parsed pipe of each detector every newline-terminated line of the
\* text received goes to the observer exactly once, in order, with the parser still
\* as the lines before it left it; the text after the last newline stays in the
\* buffer, is neither forwarded nor parsed, also once the process has closed.
C16_LinesObservedOnce ==
    pc \in {"spawned", "closed"} =>
        LET lines == CompleteLines(received)
            n == Len(lines)
        IN  /\ Len(observed) = n
            /\ \A k \in 1..n :
                  /\ observed[k].text = TrimEnd(lines[k])
                  /\ observed[k].seen = IF detector = "dup" THEN DupParsed(lines, k - 1)
                                        ELSE FreezeParsed(lines, k - 1)
            /\ buffer = Unterminated(received)
            /\ IF detector = "dup"
               THEN /\ hashes = DupParsed(lines, n).hashes
                    /\ frameIndex = DupParsed(lines, n).frameIndex
                    /\ pc = "spawned" => DupParser = DupParsed(lines, n)
               ELSE FreezeParser = FreezeParsed(lines, n)

\* a process that closed with text in the buffer, after lines that changed the
\* parser and a chunk that ended inside a two-byte character
C16_Witness ==
    /\ pc = "closed"
    /\ buffer # <<>>
    /\ Len(observed) >= 2
    /\ observed[1].seen # observed[2].seen
    /\ \E k \in 1..Len(observed) : \E i \in 1..Len(observed[k].text) :
          observed[k].text[i] = ReplacementChar

\* ==================================================================== C17
\* the lines the claim names, read off the text: a comment, an empty line, a line
\* without a comma, a line whose text after the last comma (after the last '=' in
\* it, if it has one) is empty or blank
NoHashLine(line) ==
    \/ line = <<>>
    \/ Head(line) = "#"
    \/ \A i \in 1..Len(line) : line[i] # ","
    \/ LET commas == {i \in 1..Len(line) : line[i] = ","}
           lastComma == CHOOSE i \in commas : \A j \in commas : j <= i
           equals == {i \in (lastComma + 1)..Len(line) : line[i] = "="}
           from == IF equals = {} THEN lastComma + 1
                   ELSE (CHOOSE i \in equals : \A j \in equals : j <= i) + 1
       IN  \A i \in from..Len(line) : line[i] \in WhiteSpace

\* C17: in detectExactDuplicateRanges a step that takes in one line yielding no
\* hash leaves the frame counter, previousHash, the open run and the recorded
\* ranges as they were; the frame counter counts the other lines handed to the
\* observer only, and a run is open exactly when the last two of them carried the
\* same hash, whatever lines without a hash came between.
C17_NoHashLineIgnored ==
    [][ (detector = "dup" /\ pc' = "spawned") =>
          /\ (Len(observed') = Len(observed) + 1
                 /\ NoHashLine(observed'[Len(observed')].text)) =>
                UNCHANGED <<frameIndex, previousHash, runStart, runLength, rawRanges, hashes>>
          /\ LET n == Len(hashes')
             IN  /\ frameIndex'
                       = Cardinality({k \in 1..Len(observed') : ~NoHashLine(observed'[k].text)})
                 /\ runStart' # <<>> <=> (n >= 2 /\ hashes'[n] = hashes'[n - 1]) ]_vars

\* a hash, a comment line with a comma in it, the same hash again: one open run
C17_Witness ==
    /\ detector = "dup" /\ pc = "spawned"
    /\ TextsOf(observed) = << <<",", TwoByteChar>>, <<"#", ",", "a">>, <<",", TwoByteChar>> >>
    /\ frameIndex = 2
    /\ runStart = <<0>> /\ runLength = 2

\* ==================================================================== C18
\* C18: after every processed line of detectExactDuplicateRanges, runStart is null
\* iff runLength is 0; an open run has runStart >= 0, runLength >= 2 and ends at
\* the last processed frame (runStart + runLength = frame counter); and a run is
\* open exactly when the last two valid hashes were equal.
C18_RunTracking ==
    (pc = "spawned" /\ detector = "dup") =>
        LET n == Len(hashes)
        IN  /\ frameIndex = n
            /\ runStart = <<>> <=> runLength = 0
            /\ runStart # <<>> =>
                  /\ runStart[1] >= 0 /\ runLength >= 2
                  /\ runStart[1] + runLength = frameIndex
            /\ runStart # <<>> <=> (n >= 2 /\ hashes[n] = hashes[n - 1])

\* an open run of three frames after an earlier run was recorded
C18_Witness ==
    /\ pc = "spawned" /\ detector = "dup"
    /\ rawRanges # <<>>
    /\ runStart # <<>> /\ runStart[1] >= 2 /\ runLength = 3

\* ==================================================================== C19
\* C19: in detectExactDuplicateRanges the ranges recorded by finalizeRun are in
\* ascending order with next.start >= prev.end + 2, each with start >= 1 and a
\* length within the coerced bounds; the final merge joins nothing: the result is
\* the recorded ranges that end before the last frame, one per qualifying run.
C19_RecordedRangesApart ==
    (detector = "dup" /\ pc \in {"spawned", "closed"}) =>
        /\ \A i \in 1..(Len(rawRanges) - 1) : rawRanges[i + 1][1] >= rawRanges[i][2] + 2
        /\ \A i \in 1..Len(rawRanges) :
              LET len == rawRanges[i][2] - rawRanges[i][1] + 1
              IN  /\ rawRanges[i][1] >= 1
                  /\ len >= minFrames
                  /\ maxFrames # <<>> => len <= maxFrames[1]
        /\ (pc = "closed" /\ CloseCall.kind = "resolve") =>
              /\ CloseCall.value = SelectSeq(rawRanges, LAMBDA r : r[2] <= Len(hashes) - 2)
              /\ Len(CloseCall.value) = Cardinality(QualifyingRuns)

\* two returned runs with one frame between their ranges, and a recorded tail run
C19_Witness ==
    /\ Returned /\ detector = "dup"
    /\ Len(Outcome.value) = 2
    /\ Outcome.value[2][1] = Outcome.value[1][2] + 2
    /\ Len(rawRanges) = 3

\* ==================================================================== C20
\* C20: every range in the list detectFreezeRanges returns has start >= 1, length
\* >= minFrames and, when the upper bound is enabled, length <= maxFrames, also
\* when the frame ranges of two freezes overlap or touch.
C20_ReturnedLengthBounded ==
    (Returned /\ detector \in FreezeDetectors) =>
        \A i \in 1..Len(Outcome.value) :
            LET len == Outcome.value[i][2] - Outcome.value[i][1] + 1
            IN  /\ Outcome.value[i][1] >= 1
                /\ len >= minFrames
                /\ maxFrames # <<>> => len <= maxFrames[1]

\* ------------------------------------------- the merger applied to a list
Pairs == (0..MaxCoord) \X (0..MaxCoord)

RECURSIVE ListsUpTo(_)
ListsUpTo(n) ==
    IF n = 0 THEN {<<>>}
    ELSE LET shorter == ListsUpTo(n - 1)
         IN  shorter \cup {Append(l, p) : l \in {s \in shorter : Len(s) = n - 1}, p \in Pairs}

IndexPermutations(n) == {p \in [1..n -> 1..n] : \A i, j \in 1..n : p[i] = p[j] => i = j}

Permuted(list, p) == [i \in 1..Len(list) |-> list[p[i]]]

InitMerge ==
    /\ mInput \in ListsUpTo(MaxLen)
    /\ mOnce = <<>> /\ mTwice = <<>> /\ mPerm = <<>>
    /\ detector = "none" /\ pc = "merge"
    /\ fps = [finite |-> TRUE, v |-> 0]
    /\ options = [minFrames |-> 0, maxFrames |-> 0, maxSegments |-> <<>>]
    /\ spawnCount = 0 /\ minFrames = 0 /\ maxFrames = <<>> /\ maxSegments = <<>>
    /\ buffer = "" /\ currentStart = <<>> /\ rangesByTime = <<>>
    /\ rawRanges = <<>> /\ frameIndex = 0 /\ previousHash = <<>>
    /\ runStart = <<>> /\ runLength = 0 /\ hashes = <<>>
    /\ calls = <<>> /\ exitCode = <<>> /\ logLines = 0
    /\ sBytes = <<>> /\ sPos = 0 /\ received = <<>> /\ observed = <<>> /\ stderrObserved = <<>>

MergeOnce ==
    /\ pc = "merge" /\ mOnce = <<>>
    /\ mOnce' = <<mergeRanges(mInput)>>
    /\ UNCHANGED <<mInput, mTwice, mPerm>>
    /\ UNCHANGED detVars
    /\ UNCHANGED streamVars

MergeTwice ==
    /\ pc = "merge" /\ mOnce # <<>> /\ mTwice = <<>>
    /\ mTwice' = <<mergeRanges(mOnce[1])>>
    /\ UNCHANGED <<mInput, mOnce, mPerm>>
    /\ UNCHANGED detVars
    /\ UNCHANGED streamVars

\* mergeRanges applied to every reordering of the input list
MergePermuted ==
    /\ pc = "merge" /\ mTwice # <<>> /\ mPerm = <<>>
    /\ mPerm' = <<{mergeRanges(Permuted(mInput, p)) : p \in IndexPermutations(Len(mInput))}>>
    /\ UNCHANGED <<mInput, mOnce, mTwice>>
    /\ UNCHANGED detVars
    /\ UNCHANGED streamVars

NextMerge == MergeOnce \/ MergeTwice \/ MergePermuted

SpecMerge == InitMerge /\ [][NextMerge]_vars

\* ===================================================================== C7
\* C7: mergeRanges is idempotent: merging its own output returns that output.
C7_MergeIdempotent ==
    mTwice # <<>> => mTwice[1] = mOnce[1]

\* an input with a dropped pair and pairs that were joined, merged twice
C7_Witness ==
    /\ mTwice # <<>>
    /\ Len(KeepValid(mInput)) < Len(mInput)
    /\ Len(mOnce[1]) >= 1
    /\ Len(mOnce[1]) < Len(KeepValid(mInput))

\* ===================================================================== C8
\* C8: mergeRanges is order-independent: every permutation of the input list,
\* also one with several pairs of the same start, gives the same output.
C8_MergeOrderIndependent ==
    mPerm # <<>> => mPerm[1] = {mOnce[1]}

\* an unsorted input holding two different pairs of the same start
C8_Witness ==
    /\ mPerm # <<>>
    /\ \E i, j \in 1..Len(mInput) :
          i < j /\ mInput[i][1] = mInput[j][1] /\ mInput[i][2] > mInput[j][2]
             /\ mInput[j][1] <= mInput[j][2]
    /\ \E i \in 1..(Len(mInput) - 1) : mInput[i][1] > mInput[i + 1][1]

\* ===================================================================== C9
FramesOf(list) ==
    UNION {list[i][1]..list[i][2] : i \in 1..Len(list)}

\* C9: the frames covered by mergeRanges(X) are exactly the frames covered by the
\* pairs of X with start <= end (a pair with start > end adds none), and each
\* output range is a maximal run of covered frames, listed once.
C9_MergeCoverage ==
    mOnce # <<>> =>
        LET out == mOnce[1]
            covered == UNION {mInput[i][1]..mInput[i][2] :
                                 i \in {k \in 1..Len(mInput) : mInput[k][1] <= mInput[k][2]}}
        IN  /\ FramesOf(out) = covered
            /\ \A i \in 1..Len(out) :
                  /\ out[i][1] <= out[i][2]
                  /\ (out[i][1] - 1) \notin covered
                  /\ (out[i][2] + 1) \notin covered
            /\ \A i, j \in 1..Len(out) : out[i] = out[j] => i = j

\* an input with a pair of start > end and with adjacent pairs that became one range
C9_Witness ==
    /\ mOnce # <<>>
    /\ \E i \in 1..Len(mInput) : mInput[i][1] > mInput[i][2]
    /\ \E i, j \in 1..Len(mInput) :
          /\ mInput[i][1] <= mInput[i][2] /\ mInput[j][1] <= mInput[j][2]
          /\ mInput[j][1] = mInput[i][2] + 1
          /\ <<mInput[i][1], mInput[j][2]>> \in {mOnce[1][k] : k \in 1..Len(mOnce[1])}

====
